---- MODULE Spec2Model ----
(***************************************************************************)
(* HairWorx.co API (src/main.py, src/schemas.py): the six content          *)
(* endpoints with their placeholder fallback, the slot query, appointment  *)
(* and contact submission, and the rule-based quiz.                        *)
(*                                                                         *)
(* Python values are tagged records [t |-> type, v |-> value]; a dict is a *)
(* function from field names to values; a text that the code searches or   *)
(* parses (a date, a quiz answer) is a sequence of one-character strings.  *)
(***************************************************************************)
EXTENDS Integers, Sequences, FiniteSets, TLC

VARIABLES
    store,        \* the document store: collection name -> sequence of documents
    nextId,       \* the store's next fresh document identifier
    placeholder,  \* the module-level PLACEHOLDER_* lists of main.py
    req,          \* the request being handled (or handled last)
    resp,         \* the response to it
    calls         \* the store calls made while handling req, in order

vars == <<store, nextId, placeholder, req, resp, calls>>

(***************************** bounds **************************************)
MaxDocs == 2

MaxWrites == 1

MaxGoals == 2

(************************** Python values **********************************)
None == [t |-> "none"]

S(s) == [t |-> "str", v |-> s]

I(n) == [t |-> "int", v |-> n]

\* a float with an integral value: F(95) is 95.0
F(n) == [t |-> "float", v |-> n]

B(b) == [t |-> "bool", v |-> b]

L(xs) == [t |-> "list", v |-> xs]

\* a bson ObjectId, the store's opaque identifier
Oid(n) == [t |-> "oid", v |-> n]

\* str(x) for the values the handlers convert: str(None) is "None", an
\* ObjectId prints as its digits, a str is itself
PyStr(x) ==
    CASE x.t = "none" -> "None"
      [] x.t = "oid"  -> "oid" \o ToString(x.v)
      [] x.t = "str"  -> x.v
      [] x.t = "int"  -> ToString(x.v)

\* d.get(k): the value, or None when the key is absent
DictGet(d, k) == IF k \in DOMAIN d THEN d[k] ELSE None

\* d[k] = v
DictSet(d, k, v) == [x \in (DOMAIN d) \cup {k} |-> IF x = k THEN v ELSE d[x]]

\* d.pop(k, None)
DictPop(d, k) == [x \in (DOMAIN d) \ {k} |-> d[x]]

(************************* placeholder data ********************************)
PLACEHOLDER_SERVICES == <<
    [name |-> S("Signature Cut & Finish"), description |-> S("Precision cut, luxury cleanse, high-gloss finish."), duration_minutes |-> I(60), price_from |-> F(95), category |-> S("Cut & Style")],
    [name |-> S("Balayage Luminé"), description |-> S("Hand-painted highlights for sunlit dimension."), duration_minutes |-> I(180), price_from |-> F(240), category |-> S("Color")],
    [name |-> S("Keratin Silk Infusion"), description |-> S("Smoothing treatment for mirror-shine and control."), duration_minutes |-> I(150), price_from |-> F(280), category |-> S("Treatment")] >>

PLACEHOLDER_STYLISTS == <<
    [name |-> S("Aria Bennett"), bio |-> S("Creative Director. Editorial finishes and precision bobs."), specialty |-> L(<<S("Cutting"), S("Editorial")>>), photo_url |-> S("https://images.unsplash.com/photo-1522335789203-aabd1fc54bc9?q=80&w=1200&auto=format&fit=crop")],
    [name |-> S("Luca Romano"), bio |-> S("Senior Colourist. Lived-in blondes and Italian brunettes."), specialty |-> L(<<S("Balayage"), S("Color")>>), photo_url |-> S("https://images.unsplash.com/photo-1520975922203-b8807aabde6c?q=80&w=1200&auto=format&fit=crop")],
    [name |-> S("Maya Chen"), bio |-> S("Treatment Specialist. Keratin and scalp wellness."), specialty |-> L(<<S("Treatment"), S("Scalp")>>), photo_url |-> S("https://images.unsplash.com/photo-1607247130973-1eaba0e1ff55?q=80&w=1200&auto=format&fit=crop")] >>

\* (the dash of the first comment is an en dash in the source)
PLACEHOLDER_REVIEWS == <<
    [name |-> S("Sofia"), rating |-> I(5), comment |-> S("Flawless service - my hair has never looked better."), source |-> S("Google")],
    [name |-> S("James"), rating |-> I(5), comment |-> S("Luxury from start to finish. Highly recommend."), source |-> S("Google")],
    [name |-> S("Layla"), rating |-> I(5), comment |-> S("Beautiful space, expert team, immaculate results."), source |-> S("Google")] >>

PLACEHOLDER_PROMOS == <<
    [title |-> S("New Guest Welcome"), description |-> S("Enjoy 15% off your first colour service."), code |-> S("WELCOME15")] >>

PLACEHOLDER_FAQS == <<
    [question |-> S("Do you offer consultations?"), answer |-> S("Yes, complimentary consultations are available for all services.")],
    [question |-> S("What is your cancellation policy?"), answer |-> S("We kindly ask for 24 hours' notice to reschedule or cancel.")] >>

PLACEHOLDER_GALLERY == <<
    [image_url |-> S("https://images.unsplash.com/photo-1514575114800-4eec5aadae06?q=80&w=1600&auto=format&fit=crop"), caption |-> S("Balayage Luminé"), category |-> S("Color")],
    [image_url |-> S("https://images.unsplash.com/photo-1503951458645-643d53bfd90f?q=80&w=1600&auto=format&fit=crop"), caption |-> S("Classic Bob"), category |-> S("Cut")],
    [image_url |-> S("https://images.unsplash.com/photo-1522335789203-aabd1fc54bc9?q=80&w=1600&auto=format&fit=crop"), caption |-> S("Runway Finish"), category |-> S("Style")] >>

\* the six module-level lists as the process holds them after import
PlaceholderTables ==
    [services |-> PLACEHOLDER_SERVICES, stylists |-> PLACEHOLDER_STYLISTS,
     reviews |-> PLACEHOLDER_REVIEWS, promotions |-> PLACEHOLDER_PROMOS,
     faqs |-> PLACEHOLDER_FAQS, gallery |-> PLACEHOLDER_GALLERY]

(*************************** document store ********************************)
\* the collection each content endpoint lists (main.py 112..137)
ContentCollection ==
    [services |-> "service", stylists |-> "stylist", reviews |-> "review",
     promotions |-> "promotion", faqs |-> "faq", gallery |-> "galleryitem"]

ContentKinds == DOMAIN ContentCollection

ContentNames == {ContentCollection[k] : k \in ContentKinds}

WriteNames == {"appointment", "contactmessage"}

Collections == ContentNames \cup WriteNames

\* documents an operator may have put into collection c: one with an
\* identifier, one that also carries a field named id, one without identifier
SeedDoc(c, k) ==
    CASE k = 1 -> [_id |-> Oid(1), name |-> S(c)]
      [] k = 2 -> [_id |-> Oid(2), name |-> S(c), id |-> S("legacy")]
      [] k = 3 -> [name |-> S(c)]

SeedKinds == {1, 2, 3}

RECURSIVE SeqsUpTo(_, _)
SeqsUpTo(X, n) ==
    IF n = 0 THEN {<<>>}
    ELSE LET shorter == SeqsUpTo(X, n - 1)
         IN  shorter \cup {Append(s, x) : s \in {t \in shorter : Len(t) = n - 1}, x \in X}

\* which content collections hold documents: none, all, one, or all but one
Populations == {{}, ContentNames, {"faq"}, ContentNames \ {"faq"}}

\* the store's "list all" of a collection
get_documents(name) == store[name]

\* the store's "create one": the collection after the insert, the record
\* stored under a fresh identifier
InsertInto(name, record) ==
    [store EXCEPT ![name] = Append(@, DictSet(record, "_id", Oid(nextId)))]

\* messages of the storage errors a store call may raise
StoreErrors == {"Database not available", "connection timed out"}

NumWritten == Len(store["appointment"]) + Len(store["contactmessage"])

(**************************** HTTP surface *********************************)
NoRequest == [kind |-> "none"]

NoResponse == [status |-> 0, body |-> None]

Ok(body) == [status |-> 200, body |-> body]

\* raise HTTPException(status_code, detail)
HTTPException(status_code, detail) == [status |-> status_code, body |-> [detail |-> detail]]

\* the framework's answer to a body that fails its pydantic schema; the
\* handler is not entered
RequestValidationError == [status |-> 422, body |-> [detail |-> "validation error"]]

(************************* content endpoints *******************************)
\* the normalisation without its d.pop("_id", None)
NormalizeIdKeepsInternal(d) == DictSet(d, "id", S(PyStr(DictGet(d, "_id"))))

\* d["id"] = str(d.get("_id")); d.pop("_id", None)
NormalizeId(d) == DictPop(DictSet(d, "id", S(PyStr(DictGet(d, "_id")))), "_id")

\* collection_list without the `if docs:` test: an empty result is returned
collection_list_no_fallback_on_empty(name, ph, raises) ==
    IF raises THEN ph
    ELSE [i \in 1..Len(get_documents(name)) |-> NormalizeId(get_documents(name)[i])]

\* collection_list(name, placeholder); raises: whether get_documents raised
collection_list(name, ph, raises) ==
    IF raises THEN ph
    ELSE LET docs == get_documents(name)
         IN  IF Len(docs) > 0
             THEN [i \in 1..Len(docs) |-> NormalizeId(docs[i])]
             ELSE ph

\* a content endpoint: one list call, the response is collection_list's result
ContentEndpoint(kind, name, ph) ==
    \E raises \in BOOLEAN :
        /\ req' = [kind |-> kind]
        /\ calls' = <<[op |-> "list", coll |-> name, raised |-> raises]>>
        /\ resp' = Ok(collection_list(name, ph, raises))
        /\ UNCHANGED <<store, nextId, placeholder>>

get_services == ContentEndpoint("services", "service", placeholder.services)

get_stylists == ContentEndpoint("stylists", "stylist", placeholder.stylists)

get_reviews == ContentEndpoint("reviews", "review", placeholder.reviews)

get_promotions == ContentEndpoint("promotions", "promotion", placeholder.promotions)

get_faqs == ContentEndpoint("faqs", "faq", placeholder.faqs)

get_gallery == ContentEndpoint("gallery", "galleryitem", placeholder.gallery)

(****************************** schemas ************************************)
\* the addresses the EmailStr validator accepts among those the bodies use
WellFormedEmails == {"ana@example.com"}

IsStr(b, f) == f \in DOMAIN b /\ b[f].t = "str"

\* Optional[str] = None
IsOptStr(b, f) == f \notin DOMAIN b \/ b[f].t \in {"none", "str"}

IsOptEmail(b, f) ==
    \/ f \notin DOMAIN b
    \/ b[f].t = "none"
    \/ b[f].t = "str" /\ b[f].v \in WellFormedEmails

\* class Appointment(BaseModel)
ValidAppointment(b) ==
    /\ \A f \in {"customer_name", "service_id", "service_name", "date", "time"} : IsStr(b, f)
    /\ \A f \in {"customer_phone", "stylist_id", "stylist_name", "notes", "reminder_method"} : IsOptStr(b, f)
    /\ IsOptEmail(b, "customer_email")
    /\ "price" \in DOMAIN b => \/ b["price"].t = "none"
                               \/ b["price"].t \in {"float", "int"} /\ b["price"].v >= 0
    /\ "source" \in DOMAIN b => b["source"].t = "str"
    /\ "calendar_synced" \in DOMAIN b => b["calendar_synced"].t = "bool"

AppointmentDefaults ==
    [customer_email |-> None, customer_phone |-> None, stylist_id |-> None,
     stylist_name |-> None, notes |-> None, price |-> None, source |-> S("web"),
     calendar_synced |-> B(FALSE), reminder_method |-> None]

AppointmentFields ==
    {"customer_name", "service_id", "service_name", "date", "time"} \cup DOMAIN AppointmentDefaults

\* the validated model: the declared fields, defaults where the body has none
Appointment(b) ==
    [f \in AppointmentFields |-> IF f \in DOMAIN b THEN b[f] ELSE AppointmentDefaults[f]]

\* class ContactMessage(BaseModel)
ValidContactMessage(b) ==
    /\ IsStr(b, "name") /\ IsStr(b, "message")
    /\ IsOptEmail(b, "email") /\ IsOptStr(b, "phone")

ContactMessageDefaults == [email |-> None, phone |-> None]

ContactMessage(b) ==
    [f \in {"name", "message", "email", "phone"} |->
        IF f \in DOMAIN b THEN b[f] ELSE ContactMessageDefaults[f]]

(************************ booking and contact ******************************)
\* the response echoing the body's calendar_synced
AppointmentCreatedEcho(appt, appt_id) ==
    Ok([status |-> "ok", id |-> appt_id, calendar_synced |-> appt["calendar_synced"].v])

\* return {"status": "ok", "id": appt_id, "calendar_synced": False}
AppointmentCreated(appt, appt_id) ==
    Ok([status |-> "ok", id |-> appt_id, calendar_synced |-> FALSE])

\* return {"status": "ok", "id": msg_id}
ContactCreated(msg, msg_id) == Ok([status |-> "ok", id |-> msg_id])

\* the failure reported without the underlying message
CreateFailedGeneric(e) == HTTPException(500, "Internal Server Error")

\* except Exception as e: raise HTTPException(status_code=500, detail=str(e))
CreateFailed(e) == HTTPException(500, e)

\* the body of a write handler: one create_document call, then the response
CreateOnce(kind, body, name, model, created) ==
    /\ req' = [kind |-> kind, body |-> body]
    /\ UNCHANGED placeholder
    /\ \/ /\ NumWritten < MaxWrites
          /\ store' = InsertInto(name, model)
          /\ nextId' = nextId + 1
          /\ calls' = <<[op |-> "create", coll |-> name, raised |-> FALSE, error |-> ""]>>
          /\ resp' = created
       \/ \E e \in StoreErrors :
            /\ calls' = <<[op |-> "create", coll |-> name, raised |-> TRUE, error |-> e]>>
            /\ resp' = CreateFailed(e)
            /\ UNCHANGED <<store, nextId>>

\* the schema applied only after the record has been stored
RejectedAfterStoring(kind, body) ==
    /\ req' = [kind |-> kind, body |-> body]
    /\ resp' = RequestValidationError
    /\ UNCHANGED placeholder
    /\ IF NumWritten < MaxWrites
       THEN /\ store' = InsertInto("appointment", body)
            /\ nextId' = nextId + 1
            /\ calls' = <<[op |-> "create", coll |-> "appointment", raised |-> FALSE, error |-> ""]>>
       ELSE /\ calls' = <<>>
            /\ UNCHANGED <<store, nextId>>

\* a body that fails the schema: answered before the handler runs
Rejected(kind, body) ==
    /\ req' = [kind |-> kind, body |-> body]
    /\ calls' = <<>>
    /\ resp' = RequestValidationError
    /\ UNCHANGED <<store, nextId, placeholder>>

create_appointment(body) ==
    IF ValidAppointment(body)
    THEN CreateOnce("appointments", body, "appointment", Appointment(body),
                    AppointmentCreated(Appointment(body), PyStr(Oid(nextId))))
    ELSE Rejected("appointments", body)

contact(body) ==
    IF ValidContactMessage(body)
    THEN CreateOnce("contact", body, "contactmessage", ContactMessage(body),
                    ContactCreated(ContactMessage(body), PyStr(Oid(nextId))))
    ELSE Rejected("contact", body)

(***************************** request bodies ******************************)
BaseAppointment ==
    [customer_name |-> S("Ana"), service_id |-> S("svc-1"),
     service_name |-> S("Signature Cut & Finish"),
     date |-> S("2025-01-06"), time |-> S("10:00")]

AppointmentBodies ==
    { BaseAppointment,
      \* ids of no service or stylist, calendar_synced supplied as true
      [customer_name |-> S("Bo"), service_id |-> S("no-such-service"),
       service_name |-> S("?"), stylist_id |-> S("no-such-stylist"),
       date |-> S("someday"), time |-> S("25:99"),
       customer_email |-> S("ana@example.com"), price |-> F(0),
       calendar_synced |-> B(TRUE)],
      DictPop(BaseAppointment, "customer_name"),
      DictPop(BaseAppointment, "service_id"),
      DictSet(BaseAppointment, "price", F(-1)),
      DictSet(BaseAppointment, "customer_email", S("not-an-email")) }

ContactBodies ==
    { [name |-> S("Ana"), message |-> S("Hello")],
      [name |-> S("Ana")] }

(******************************* texts *************************************)
\* the character at position i of s, "" past its end
At(s, i) == IF i >= 1 /\ i <= Len(s) THEN s[i] ELSE ""

DigitChars == <<"0", "1", "2", "3", "4", "5", "6", "7", "8", "9">>

IsDigit(c) == \E i \in 1..10 : DigitChars[i] = c

DigitVal(c) == (CHOOSE i \in 1..10 : DigitChars[i] = c) - 1

IsNonZeroDigit(c) == IsDigit(c) /\ c # "0"

\* int() of the digits s[from..to], a leading space skipped
RECURSIVE IntOf(_, _, _)
IntOf(s, from, to) ==
    IF from > to THEN 0
    ELSE IF s[to] = " " THEN 0
    ELSE 10 * IntOf(s, from, to - 1) + DigitVal(s[to])

UpperChars == <<"A", "B", "C", "D", "E", "F", "G", "H", "I", "J", "K", "L", "M",
                "N", "O", "P", "Q", "R", "S", "T", "U", "V", "W", "X", "Y", "Z">>

LowerChars == <<"a", "b", "c", "d", "e", "f", "g", "h", "i", "j", "k", "l", "m",
                "n", "o", "p", "q", "r", "s", "t", "u", "v", "w", "x", "y", "z">>

\* str.lower()
Lower(s) ==
    [i \in 1..Len(s) |->
        IF \E k \in 1..26 : UpperChars[k] = s[i]
        THEN LowerChars[CHOOSE k \in 1..26 : UpperChars[k] = s[i]]
        ELSE s[i]]

\* " ".join(words)
RECURSIVE Join(_)
Join(words) ==
    IF Len(words) = 0 THEN <<>>
    ELSE IF Len(words) = 1 THEN words[1]
    ELSE words[1] \o <<" ">> \o Join(Tail(words))

\* needle in hay, for str
Contains(hay, needle) ==
    \E i \in 0..(Len(hay) - Len(needle)) : SubSeq(hay, i + 1, i + Len(needle)) = needle

(***************************** slot query **********************************)
\* the month directive of strptime, (1[0-2]|0[1-9]|[1-9]), at position p
\* and followed by the "-" of the format: the length it matches, 0 for none
MonthLen(s, p) ==
    LET two == \/ At(s, p) = "1" /\ At(s, p + 1) \in {"0", "1", "2"}
               \/ At(s, p) = "0" /\ IsNonZeroDigit(At(s, p + 1))
        one == IsNonZeroDigit(At(s, p))
    IN  IF two /\ At(s, p + 2) = "-" THEN 2
        ELSE IF one /\ At(s, p + 1) = "-" THEN 1
        ELSE 0

\* the day directive, (3[0-1]|[1-2]\d|0[1-9]|[1-9]| [1-9]), at position p:
\* the length of the first alternative that matches, 0 for none
DayLen(s, p) ==
    IF \/ At(s, p) = "3" /\ At(s, p + 1) \in {"0", "1"}
       \/ At(s, p) \in {"1", "2"} /\ IsDigit(At(s, p + 1))
       \/ At(s, p) = "0" /\ IsNonZeroDigit(At(s, p + 1))
    THEN 2
    ELSE IF IsNonZeroDigit(At(s, p)) THEN 1
    ELSE IF At(s, p) = " " /\ IsNonZeroDigit(At(s, p + 1)) THEN 2
    ELSE 0

IsLeap(y) == y % 4 = 0 /\ (y % 100 # 0 \/ y % 400 = 0)

DaysInMonth(y, m) ==
    IF m = 2 THEN (IF IsLeap(y) THEN 29 ELSE 28)
    ELSE IF m \in {4, 6, 9, 11} THEN 30 ELSE 31

\* datetime.strptime(date, "%Y-%m-%d"): ok is FALSE where it raises ValueError
\* (no match, unconverted data left over, or no such day in the calendar)
strptime(s) ==
    LET ml   == MonthLen(s, 6)
        dpos == 6 + ml + 1
        dl   == DayLen(s, dpos)
        matched ==
            /\ \A i \in 1..4 : IsDigit(At(s, i))
            /\ At(s, 5) = "-"
            /\ ml > 0
            /\ dl > 0
            /\ dpos + dl - 1 = Len(s)
        y == IntOf(s, 1, 4)
        m == IntOf(s, 6, 5 + ml)
        d == IntOf(s, dpos, dpos + dl - 1)
    IN  IF matched /\ y >= 1 /\ d <= DaysInMonth(y, m)
        THEN [ok |-> TRUE, year |-> y, month |-> m, day |-> d]
        ELSE [ok |-> FALSE, year |-> 0, month |-> 0, day |-> 0]

DaysBeforeMonth == <<0, 31, 59, 90, 120, 151, 181, 212, 243, 273, 304, 334>>

\* date.toordinal(): days since 0001-01-01, that day being 1
toordinal(day) ==
    LET y1 == day.year - 1
    IN  y1 * 365 + (y1 \div 4) - (y1 \div 100) + (y1 \div 400)
        + DaysBeforeMonth[day.month]
        + (IF day.month > 2 /\ IsLeap(day.year) THEN 1 ELSE 0)
        + day.day

\* date.weekday(): Monday is 0, Sunday is 6
weekday(day) == (toordinal(day) + 6) % 7

base_times == <<10, 11, 12, 14, 15, 16, 17>>

\* f"{h:02d}:00"
FormatHour(h) == (IF h < 10 THEN "0" ELSE "") \o ToString(h) \o ":00"

\* the weekend taken as days 6 and 7, as if isoweekday() numbered the days
IsWeekendIsoNumbering(day) == weekday(day) \in {6, 7}

\* the days on which slots are blocked
IsWeekend(day) == weekday(day) \in {5, 6}

\* the slot list of a parsed day
SlotsOf(day) ==
    LET slots == [i \in 1..Len(base_times) |-> FormatHour(base_times[i])]
    IN  IF IsWeekend(day)
        THEN SelectSeq(slots, LAMBDA t : t \notin {"12:00", "16:00"})
        ELSE slots

get_slots(date, service_id, stylist_id) ==
    /\ req' = [kind |-> "slots", date |-> date, service_id |-> service_id,
               stylist_id |-> stylist_id]
    /\ calls' = <<>>
    /\ resp' = IF strptime(date).ok
               THEN Ok([date |-> date, slots |-> SlotsOf(strptime(date))])
               ELSE HTTPException(400, "Invalid date format. Use YYYY-MM-DD")
    /\ UNCHANGED <<store, nextId, placeholder>>

(******************************** quiz *************************************)
Keratin ==
    [service |-> "Keratin Silk Infusion", price_from |-> F(280),
     why |-> "Intensive smoothing to reduce frizz and add mirror-shine."]

Signature ==
    [service |-> "Signature Cut & Finish", price_from |-> F(95),
     why |-> "Precision shape tailored to enhance natural volume."]

Balayage ==
    [service |-> "Balayage Luminé", price_from |-> F(240),
     why |-> "Lived-in dimension with soft, seamless tones."]

Consultation ==
    [service |-> "Personalised Consultation", price_from |-> F(0),
     why |-> "Meet your stylist to design a bespoke plan."]

\* " ".join(data.goals).lower()
GoalsText(data) == Lower(Join(data.goals))

\* the rule without .lower()
KeratinRuleCaseSensitive(data) ==
    \/ Contains(data.condition, <<"f", "r", "i", "z", "z">>)
    \/ Contains(Join(data.goals), <<"s", "m", "o", "o", "t", "h">>)

\* "frizz" in data.condition.lower() or "smooth" in " ".join(data.goals).lower()
KeratinRule(data) ==
    \/ Contains(Lower(data.condition), <<"f", "r", "i", "z", "z">>)
    \/ Contains(GoalsText(data), <<"s", "m", "o", "o", "t", "h">>)

\* "volume" in " ".join(data.goals).lower()
VolumeRule(data) == Contains(GoalsText(data), <<"v", "o", "l", "u", "m", "e">>)

\* both spellings matched as substrings of the lowered goals text
ColourRuleUnified(data) ==
    \/ Contains(GoalsText(data), <<"c", "o", "l", "o", "u", "r">>)
    \/ Contains(GoalsText(data), <<"c", "o", "l", "o", "r">>)

\* "colour" in data.goals or "color" in " ".join(data.goals).lower()
ColourRule(data) ==
    \/ \E i \in 1..Len(data.goals) : data.goals[i] = <<"c", "o", "l", "o", "u", "r">>
    \/ Contains(GoalsText(data), <<"c", "o", "l", "o", "r">>)

\* the rules as an if / elif chain: only the first rule that fires recommends
RecommendFirstMatch(data) ==
    IF KeratinRule(data) THEN <<Keratin>>
    ELSE IF VolumeRule(data) THEN <<Signature>>
    ELSE IF ColourRule(data) THEN <<Balayage>>
    ELSE <<Consultation>>

\* the recommendations list as the handler builds it
Recommend(data) ==
    LET recommendations ==
            (IF KeratinRule(data) THEN <<Keratin>> ELSE <<>>)
            \o (IF VolumeRule(data) THEN <<Signature>> ELSE <<>>)
            \o (IF ColourRule(data) THEN <<Balayage>> ELSE <<>>)
    IN  IF Len(recommendations) = 0 THEN <<Consultation>> ELSE recommendations

ai_quiz(data) ==
    /\ req' = [kind |-> "quiz", data |-> data]
    /\ calls' = <<>>
    /\ resp' = Ok([summary |-> "Curated for your hair profile.",
                   recommendations |-> Recommend(data)])
    /\ UNCHANGED <<store, nextId, placeholder>>

(**************************** request inputs *******************************)
DateYears == { <<"2", "0", "2", "5">>,
               <<"2", "0", "2", "4">>,
               <<"1", "9", "0", "0">>,
               <<"0", "0", "0", "0">>,
               <<"2", "0", "2">>,
               <<"2", "0", "2", "5", "1">> }

DateMonths == { <<"0", "1">>,
                <<"1">>,
                <<"0", "2">>,
                <<"2">>,
                <<"1", "2">>,
                <<"1", "3">>,
                <<"0", "0">>,
                <<"1", "a">> }

DateDays == { <<"0", "1">>,
              <<"1">>,
              <<"0", "4">>,
              <<"0", "5">>,
               <<"0", "6">>,
              <<"5">>,
              <<" ", "5">>,
              <<"2", "8">>,
              <<"2", "9">>,
              <<"3", "0">>,
              <<"3", "1">>,
              <<"3", "2">>,
              <<"0", "0">>,
              <<"5", "x">> }

DateSeps == {<<"-">>, <<"/">>}

\* the date strings a client may send
Dates ==
    {y \o s1 \o m \o s2 \o d :
        y \in DateYears, s1 \in DateSeps, m \in DateMonths, s2 \in DateSeps, d \in DateDays}
    \cup { <<>>, <<"t", "o", "d", "a", "y">>, <<"2", "0", "2", "5", "-", "0", "1", "-", "0", "6", "T", "1", "0", ":", "0", "0">>, <<"2", "0", "2", "5", "-", "1", "3", "-", "4", "0">> }

OptionalIds == {None, S("svc-1")}

SlotRequests ==
    [kind : {"slots"}, date : Dates, service_id : OptionalIds, stylist_id : OptionalIds]

ConditionTexts == { <<>>,
                    <<"f", "r", "i", "z", "z">>,
                    <<"F", "r", "i", "z", "z", "y">>,
                    <<"s", "m", "o", "o", "t", "h">>,
                    <<"d", "r", "y">> }

GoalTexts == { <<"s", "m", "o", "o", "t", "h">>,
               <<"S", "m", "o", "o", "t", "h", "e", "r">>,
               <<"f", "r", "i", "z", "z">>,
               <<"v", "o", "l", "u", "m", "e">>,
               <<"V", "O", "L", "U", "M", "E">>,
               <<"c", "o", "l", "o", "u", "r">>,
               <<"C", "o", "l", "o", "u", "r">>,
               <<"h", "a", "i", "r", " ", "c", "o", "l", "o", "u", "r">>,
               <<"C", "o", "l", "o", "r">>,
               <<"s", "h", "i", "n", "e">> }

HairTypes == { <<"c", "u", "r", "l", "y">>,
               <<"f", "r", "i", "z", "z", "y", " ", "s", "m", "o", "o", "t", "h", " ", "c", "o", "l", "o", "u", "r">> }

\* schema-valid QuizInput bodies
QuizInputs ==
    [hair_type : HairTypes, condition : ConditionTexts, scalp : {None},
     goals : SeqsUpTo(GoalTexts, MaxGoals), past_treatments : {None}]

QuizRequests == [kind : {"quiz"}, data : QuizInputs]

\* the few slot and quiz requests that are interleaved with the store's traffic
SampleDates == { <<"2", "0", "2", "5", "-", "0", "1", "-", "0", "4">>, <<"2", "0", "2", "5", "-", "0", "1", "-", "0", "6">>, <<"2", "0", "2", "5", "-", "1", "3", "-", "4", "0">> }

SampleQuizInputs ==
    {q \in QuizInputs : q.hair_type = <<"c", "u", "r", "l", "y">> /\ q.condition = <<"f", "r", "i", "z", "z">> /\ Len(q.goals) <= 1
                        /\ \A i \in 1..Len(q.goals) : q.goals[i] \in {<<"v", "o", "l", "u", "m", "e">>, <<"c", "o", "l", "o", "u", "r">>}}

(*************************** specifications ********************************)
\* a content collection an operator has populated with the documents `shape`
Seeded(c, shape) == [i \in 1..Len(shape) |-> SeedDoc(c, shape[i])]

EmptyStore == [c \in Collections |-> <<>>]

\* the API in front of a store whose content collections an operator may
\* have populated; no appointment or message has been submitted yet
Init ==
    /\ \E P \in Populations, shape \in SeqsUpTo(SeedKinds, MaxDocs) \ {<<>>} :
          store = [c \in Collections |-> IF c \in P THEN Seeded(c, shape) ELSE <<>>]
    /\ nextId = 100
    /\ placeholder = PlaceholderTables
    /\ req = NoRequest
    /\ resp = NoResponse
    /\ calls = <<>>

PostAppointment == \E body \in AppointmentBodies : create_appointment(body)

PostContact == \E body \in ContactBodies : contact(body)

GetSlots == \E date \in SampleDates : get_slots(date, None, None)

PostQuiz == \E data \in SampleQuizInputs : ai_quiz(data)

Next ==
    \/ get_services
    \/ get_stylists
    \/ get_reviews
    \/ get_promotions
    \/ get_faqs
    \/ get_gallery
    \/ GetSlots
    \/ PostAppointment
    \/ PostContact
    \/ PostQuiz

Spec == Init /\ [][Next]_vars

\* the slot query alone, over every date string of Dates
InitSlots ==
    /\ store = EmptyStore
    /\ nextId = 100
    /\ placeholder = PlaceholderTables
    /\ req \in SlotRequests
    /\ resp = NoResponse
    /\ calls = <<>>

HandleSlots == req.kind = "slots" /\ get_slots(req.date, req.service_id, req.stylist_id)

NextSlots == HandleSlots

SpecSlots == InitSlots /\ [][NextSlots]_vars

\* the quiz alone, over every body of QuizInputs
InitQuiz ==
    /\ store = EmptyStore
    /\ nextId = 100
    /\ placeholder = PlaceholderTables
    /\ req \in QuizRequests
    /\ resp = NoResponse
    /\ calls = <<>>

HandleQuiz == req.kind = "quiz" /\ ai_quiz(req.data)

NextQuiz == HandleQuiz

SpecQuiz == InitQuiz /\ [][NextQuiz]_vars

(******************************* claims ************************************)
IsContentRequest == req.kind \in ContentKinds

\* the collection the handled content request is about (6. External interfaces)
RequestedCollection == ContentCollection[req.kind]

ListRaised == calls[1].raised

\* every record of every placeholder list
PlaceholderRecords ==
    UNION {{PlaceholderTables[k][i] : i \in 1..Len(PlaceholderTables[k])} : k \in ContentKinds}

\* C1: a content endpoint whose list call raised, or returned no document,
\* answers 200 with exactly its own placeholder list, in order, after that one
\* list call on its own collection.
C1_PlaceholderOnEmptyOrError ==
    IsContentRequest =>
        /\ Len(calls) = 1 /\ calls[1].op = "list" /\ calls[1].coll = RequestedCollection
        /\ (ListRaised \/ Len(store[RequestedCollection]) = 0) =>
               resp = [status |-> 200, body |-> PlaceholderTables[req.kind]]

\* the list call raised although the collection holds documents, and the
\* answer is the FAQ placeholder list
C1_Witness ==
    /\ req.kind = "faqs" /\ ListRaised /\ Len(store["faq"]) > 0
    /\ resp.status = 200 /\ resp.body = PLACEHOLDER_FAQS

\* C2: a content endpoint whose list call returned N >= 1 documents answers
\* with N entries in the store's order, each the stored document with its _id
\* replaced by a string id, and none of them a placeholder record.
C2_RealRecordsNormalized ==
    (IsContentRequest /\ ~ListRaised /\ Len(store[RequestedCollection]) >= 1) =>
        LET docs == store[RequestedCollection]
        IN  /\ resp.status = 200
            /\ Len(resp.body) = Len(docs)
            /\ \A i \in 1..Len(docs) :
                  LET out == resp.body[i]
                  IN  /\ "id" \in DOMAIN out /\ out["id"].t = "str"
                      /\ "_id" \notin DOMAIN out
                      /\ DOMAIN out = ((DOMAIN docs[i]) \ {"_id"}) \cup {"id"}
                      /\ \A f \in (DOMAIN out) \ {"id"} : out[f] = docs[i][f]
                      /\ "_id" \in DOMAIN docs[i] => out["id"].v = PyStr(docs[i]["_id"])
                      /\ out \notin PlaceholderRecords

\* two gallery documents, the second without identifier, come back in order
C2_Witness ==
    /\ req.kind = "gallery" /\ ~ListRaised /\ Len(store["galleryitem"]) = 2
    /\ Len(resp.body) = 2
    /\ resp.body[1]["id"] = S("oid1") /\ resp.body[2]["id"] = S("None")

SevenSlots == <<"10:00", "11:00", "12:00", "14:00", "15:00", "16:00", "17:00">>

WeekendSlots == <<"10:00", "11:00", "14:00", "15:00", "17:00">>

MonthKeys == <<0, 3, 2, 5, 0, 3, 5, 1, 4, 6, 2, 4>>

\* the day of the week by the key-value method, Sunday being 0
DayOfWeek(y, m, d) ==
    LET yy == IF m < 3 THEN y - 1 ELSE y
    IN  (yy + (yy \div 4) - (yy \div 100) + (yy \div 400) + MonthKeys[m] + d) % 7

FallsOnWeekend(date) ==
    LET day == strptime(date)
    IN  DayOfWeek(day.year, day.month, day.day) \in {0, 6}

IsSlotsAnswer == req.kind = "slots" /\ resp.status = 200

\* C3: the slot list answered for a date depends on the date alone: the five
\* weekend slots when it is a Saturday or Sunday, the seven candidates
\* otherwise, whatever service_id and stylist_id are; 2025-01-04 and
\* 2025-01-05 are a Saturday and a Sunday, 2025-01-06 a Monday.
C3_SlotsByDate ==
    IsSlotsAnswer =>
        /\ resp.body.date = req.date
        /\ resp.body.slots = IF FallsOnWeekend(req.date) THEN WeekendSlots ELSE SevenSlots
        /\ req.date \in {<<"2", "0", "2", "5", "-", "0", "1", "-", "0", "4">>, <<"2", "0", "2", "5", "-", "0", "1", "-", "0", "5">>} => resp.body.slots = WeekendSlots
        /\ req.date = <<"2", "0", "2", "5", "-", "0", "1", "-", "0", "6">> => resp.body.slots = SevenSlots

\* a Saturday asked with a service and a stylist: the five weekend slots
C3_Witness ==
    /\ IsSlotsAnswer /\ req.date = <<"2", "0", "2", "5", "-", "0", "1", "-", "0", "4">>
    /\ req.service_id = S("svc-1") /\ req.stylist_id = S("svc-1")
    /\ resp.body.slots = WeekendSlots

\* the form YYYY-MM-DD: four digits, two digits, two digits
MatchesYMD(s) ==
    /\ Len(s) = 10
    /\ \A i \in {1, 2, 3, 4, 6, 7, 9, 10} : IsDigit(s[i])
    /\ s[5] = "-" /\ s[8] = "-"

\* a string of the form YYYY-MM-DD that names a day of the calendar
IsCalendarDay(s) ==
    /\ MatchesYMD(s)
    /\ LET y == IntOf(s, 1, 4)
           m == IntOf(s, 6, 7)
           d == IntOf(s, 9, 10)
       IN  y >= 1 /\ m \in 1..12 /\ d >= 1 /\ d <= DaysInMonth(y, m)

\* C4: the slot query answers 400 for every date that is not of the form
\* YYYY-MM-DD or names no calendar day, and a slot list only for dates of
\* that form.
C4_OnlyStrictDatesAnswered ==
    (req.kind = "slots" /\ resp # NoResponse) =>
        /\ ~IsCalendarDay(req.date) => resp.status = 400
        /\ resp.status = 200 => MatchesYMD(req.date)

IsQuizAnswer == req.kind = "quiz" /\ resp.status = 200

\* whether the recommendation list holds service r
Recommends(r) == \E i \in 1..Len(resp.body.recommendations) : resp.body.recommendations[i] = r

\* some goal contains the word, whatever the case
SomeGoalMentions(word) ==
    \E i \in 1..Len(req.data.goals) : Contains(Lower(req.data.goals[i]), word)

ConditionMentions(word) == Contains(Lower(req.data.condition), word)

\* C5 as stated: Keratin Silk Infusion is recommended exactly when the
\* condition or the goals mention "frizz" or "smooth", either keyword in
\* either field.
C5_EitherKeywordInEitherField ==
    IsQuizAnswer =>
        (Recommends(Keratin) <=>
            \/ ConditionMentions(<<"f", "r", "i", "z", "z">>) \/ ConditionMentions(<<"s", "m", "o", "o", "t", "h">>)
            \/ SomeGoalMentions(<<"f", "r", "i", "z", "z">>) \/ SomeGoalMentions(<<"s", "m", "o", "o", "t", "h">>))

\* C5, amended: Keratin Silk Infusion (price 280.0) is recommended exactly
\* when the condition mentions "frizz" or some goal mentions "smooth",
\* whatever the case; "smooth" in the condition and "frizz" in the goals do
\* not count.
C5_FrizzInConditionOrSmoothInGoals ==
    IsQuizAnswer =>
        /\ Recommends(Keratin) <=>
              (ConditionMentions(<<"f", "r", "i", "z", "z">>) \/ SomeGoalMentions(<<"s", "m", "o", "o", "t", "h">>))
        /\ \A i \in 1..Len(resp.body.recommendations) :
              resp.body.recommendations[i].service = "Keratin Silk Infusion"
                  => resp.body.recommendations[i].price_from = F(280)

\* "Frizzy" as the condition, no goal: Keratin is recommended
C5_Witness ==
    /\ IsQuizAnswer /\ req.data.condition = <<"F", "r", "i", "z", "z", "y">> /\ req.data.goals = <<>>
    /\ resp.body.recommendations = <<Keratin>>

\* C6 as stated: Balayage is recommended exactly when the goals hold "colour"
\* or "color", as a list element or as a substring of the goals text whatever
\* the case.
C6_EitherSpellingEitherWay ==
    IsQuizAnswer =>
        (Recommends(Balayage) <=>
            \/ \E i \in 1..Len(req.data.goals) :
                  req.data.goals[i] \in {<<"c", "o", "l", "o", "u", "r">>, <<"c", "o", "l", "o", "r">>}
            \/ SomeGoalMentions(<<"c", "o", "l", "o", "u", "r">>) \/ SomeGoalMentions(<<"c", "o", "l", "o", "r">>))

\* C6, amended: Balayage Luminé (price 240.0) is recommended exactly when
\* some goal is exactly "colour" (lower case, the whole element) or some goal
\* contains "color" whatever the case; a goal that only contains "colour"
\* ("Colour", "hair colour") does not count.
C6_ColourElementOrColorSubstring ==
    IsQuizAnswer =>
        /\ Recommends(Balayage) <=>
              \/ \E i \in 1..Len(req.data.goals) : req.data.goals[i] = <<"c", "o", "l", "o", "u", "r">>
              \/ SomeGoalMentions(<<"c", "o", "l", "o", "r">>)
        /\ \A i \in 1..Len(resp.body.recommendations) :
              resp.body.recommendations[i].service = "Balayage Luminé"
                  => resp.body.recommendations[i].price_from = F(240)

\* the goals "Colour" then "colour": the second, an exact element, recommends
C6_Witness ==
    /\ IsQuizAnswer /\ req.data.goals = <<<<"C", "o", "l", "o", "u", "r">>, <<"c", "o", "l", "o", "u", "r">>>>
    /\ Recommends(Balayage)

\* the rules that fire on the handled quiz body, in the fixed order
FiredInOrder ==
    (IF KeratinRule(req.data) THEN <<Keratin>> ELSE <<>>)
    \o (IF VolumeRule(req.data) THEN <<Signature>> ELSE <<>>)
    \o (IF ColourRule(req.data) THEN <<Balayage>> ELSE <<>>)

\* C7: the recommendation list is never empty and never repeats a service;
\* it is the single default exactly when no rule fires, and otherwise the
\* rules that fired, each once, in the order Keratin, Signature, Balayage;
\* goals smooth and volume with condition frizz give Keratin then Signature.
C7_RecommendationList ==
    IsQuizAnswer =>
        LET recs == resp.body.recommendations
        IN  /\ Len(recs) >= 1
            /\ \A i, j \in 1..Len(recs) : i # j => recs[i].service # recs[j].service
            /\ (FiredInOrder = <<>>) <=> (recs = <<Consultation>>)
            /\ FiredInOrder # <<>> => recs = FiredInOrder
            /\ Recommends(Consultation) => Len(recs) = 1
            /\ Consultation.service = "Personalised Consultation"
            /\ Consultation.price_from = F(0)
            /\ (req.data.condition = <<"f", "r", "i", "z", "z">> /\ req.data.goals = <<<<"s", "m", "o", "o", "t", "h">>, <<"v", "o", "l", "u", "m", "e">>>>)
                   => recs = <<Keratin, Signature>>

\* condition frizz, goals smooth and volume: Keratin then Signature
C7_Witness ==
    /\ IsQuizAnswer
    /\ req.data.condition = <<"f", "r", "i", "z", "z">>
    /\ req.data.goals = <<<<"s", "m", "o", "o", "t", "h">>, <<"v", "o", "l", "u", "m", "e">>>>
    /\ resp.body.recommendations = <<Keratin, Signature>>

IsValidAppointmentRequest == req.kind = "appointments" /\ ValidAppointment(req.body)

\* the identifier under which the last appointment was stored
LastAppointmentId == store["appointment"][Len(store["appointment"])]["_id"]

\* C8: a schema-valid appointment makes one create call on the appointment
\* collection and no list call; it answers 500 or 200, and every 200 is
\* status "ok", the id the store gave and calendar_synced false, whatever
\* the body's ids and calendar_synced are.
C8_CalendarNeverSynced ==
    IsValidAppointmentRequest =>
        /\ Len(calls) = 1 /\ calls[1].op = "create" /\ calls[1].coll = "appointment"
        /\ resp.status \in {200, 500}
        /\ resp.status = 200 =>
              resp.body = [status |-> "ok", id |-> PyStr(LastAppointmentId),
                           calendar_synced |-> FALSE]

\* calendar_synced true and unknown ids in the body, false in the answer
C8_Witness ==
    /\ IsValidAppointmentRequest
    /\ "calendar_synced" \in DOMAIN req.body /\ req.body["calendar_synced"] = B(TRUE)
    /\ req.body["service_id"] = S("no-such-service")
    /\ resp.status = 200 /\ resp.body.calendar_synced = FALSE

IsWriteRequest == req.kind \in {"appointments", "contact"}

\* C9: a submission whose create call raised answers 500 with the message
\* of the error as detail, after that single create call.
C9_WriteFailureSurfacedOnce ==
    (IsWriteRequest /\ calls # <<>> /\ calls[1].raised) =>
        /\ Len(calls) = 1 /\ calls[1].op = "create"
        /\ resp = [status |-> 500, body |-> [detail |-> calls[1].error]]
        /\ calls[1].error \in StoreErrors

\* a contact submission that met a timeout
C9_Witness ==
    /\ req.kind = "contact" /\ Len(calls) = 1 /\ calls[1].raised
    /\ resp.status = 500 /\ resp.body.detail = "connection timed out"

\* the collection a write request stores into, and the record it stores
WriteTarget(r) == IF r.kind = "appointments" THEN "appointment" ELSE "contactmessage"

WriteValid(r) ==
    IF r.kind = "appointments" THEN ValidAppointment(r.body) ELSE ValidContactMessage(r.body)

WriteRecord(r) == IF r.kind = "appointments" THEN Appointment(r.body) ELSE ContactMessage(r.body)

\* the step of one handled request
C10_Step ==
    /\ placeholder' = placeholder
    /\ req'.kind \notin {"appointments", "contact"} =>
          /\ store' = store
          /\ \A i \in 1..Len(calls') : calls'[i].op # "create"
    /\ (req'.kind \in {"appointments", "contact"} /\ ~WriteValid(req')) =>
          /\ store' = store /\ calls' = <<>> /\ resp'.status = 422
    /\ store' # store =>
          LET c == WriteTarget(req')
              n == Len(store[c])
          IN  /\ req'.kind \in {"appointments", "contact"} /\ WriteValid(req')
              /\ resp'.status = 200
              /\ \A o \in Collections \ {c} : store'[o] = store[o]
              /\ Len(store'[c]) = n + 1
              /\ SubSeq(store'[c], 1, n) = store[c]
              /\ DictPop(store'[c][n + 1], "_id") = WriteRecord(req')

====
